---- MODULE Spec2Model ----
(***************************************************************************)
(* Model of scripts/sync_openrouter_analytics.py: the daily job that       *)
(* fetches OpenRouter activity for each planned date, aggregates it into   *)
(* a daily summary and posts one event per date to PostHog.                *)
(*                                                                         *)
(* Representation.  A date string "YYYY-MM-DD" is the tuple <<y, m, d>>;   *)
(* a datetime is the record [year, month, day]; strptime and strftime      *)
(* convert between the two, and adding a timedelta goes through the        *)
(* proleptic Gregorian ordinal as datetime.__add__ does.  An argument or   *)
(* environment variable that was not given is None.  Costs ("usage") are   *)
(* floating point in the program and small naturals here, so the rounding  *)
(* of float addition is outside the model.                                 *)
(***************************************************************************)
EXTENDS Integers, Sequences, FiniteSets, TLC

VARIABLES
    env,            \* os.environ: OPENROUTER_API_KEY, POSTHOG_API_KEY, POSTHOG_HOST
    args,           \* argparse namespace: date, start_date, end_date
    today,          \* the current UTC calendar date (datetime.now(timezone.utc))
    pc,             \* position of the single thread of control
    dates,          \* main: the planned list of dates
    idx,            \* main: 1-based position of the loop variable `date` in dates
    success_count,  \* main: success_count
    raw_data,       \* sync_date: raw_data
    event_data,     \* sync_date: event_data
    exit_code,      \* exit status of the process (meaningful when pc = "exited")
    error,          \* what ended the run abnormally, "none" otherwise
    summary,        \* the <<success_count, len(dates)>> pair printed at the end
    fetched,        \* history: dates for which the activity GET was issued
    posted,         \* history: payloads POSTed to PostHog
    outcomes        \* history: how sync_date ended for each processed date

vars == << env, args, today, pc, dates, idx, success_count, raw_data, event_data,
           exit_code, error, summary, fetched, posted, outcomes >>

\* ------------------------------------------------------------------ bounds

\* Longest distance in days between the start and end dates tried for
\* parse_date_range.
MaxSpan == 3

\* Number of consecutive calendar dates the command line and the clock of a
\* whole run are drawn from.
NumDays == 3

\* Longest list of activity records given to transform_activity_data.
MaxRecords == 3

\* Largest cost ("usage") of an activity record.
MaxCost == 2

\* ------------------------------------------------------------- None, truth

\* A date argument that was not given (Python None; "" is as falsy).
NoDate == << >>

\* os.getenv of a variable that is not set.
Unset == "<None>"

\* Python truthiness of an optional string.
Truthy(v) == v # Unset /\ v # ""

\* ------------------------------------------------------------- the calendar

IsLeap(y) == (y % 4 = 0) /\ ((y % 100 # 0) \/ (y % 400 = 0))

DaysInMonthTable == << 31, 28, 31, 30, 31, 30, 31, 31, 30, 31, 30, 31 >>

DaysInMonth(y, m) == IF m = 2 /\ IsLeap(y) THEN 29 ELSE DaysInMonthTable[m]

DaysBeforeMonthTable == << 0, 31, 59, 90, 120, 151, 181, 212, 243, 273, 304, 334 >>

DaysBeforeMonth(y, m) == DaysBeforeMonthTable[m] + (IF m > 2 /\ IsLeap(y) THEN 1 ELSE 0)

DaysBeforeYear(y) == (y - 1) * 365 + ((y - 1) \div 4) - ((y - 1) \div 100) + ((y - 1) \div 400)

\* datetime.toordinal: 1 for 0001-01-01.
ToOrdinal(dt) == DaysBeforeYear(dt.year) + DaysBeforeMonth(dt.year, dt.month) + dt.day

\* datetime.fromordinal, by 400-, 100-, 4- and 1-year cycles.
FromOrdinal(n) ==
    LET n0   == n - 1
        n400 == n0 \div 146097
        r400 == n0 % 146097
        n100 == r400 \div 36524
        r100 == r400 % 36524
        n4   == r100 \div 1461
        r4   == r100 % 1461
        n1   == r4 \div 365
        r1   == r4 % 365
        year == n400 * 400 + 1 + n100 * 100 + n4 * 4 + n1
    IN  IF n1 = 4 \/ n100 = 4
        THEN [year |-> year - 1, month |-> 12, day |-> 31]
        ELSE LET leap  == (n1 = 3) /\ (n4 # 24 \/ n100 = 3)
                 m0    == (r1 + 50) \div 32
                 p0    == DaysBeforeMonthTable[m0] + (IF m0 > 2 /\ leap THEN 1 ELSE 0)
                 month == IF p0 > r1 THEN m0 - 1 ELSE m0
                 prec  == IF p0 > r1
                          THEN p0 - (DaysInMonthTable[month]
                                     + (IF month = 2 /\ leap THEN 1 ELSE 0))
                          ELSE p0
             IN  [year |-> year, month |-> month, day |-> r1 - prec + 1]

\* datetime.strptime(s, '%Y-%m-%d')
strptime(s) == [year |-> s[1], month |-> s[2], day |-> s[3]]

\* dt.strftime('%Y-%m-%d')
strftime(dt) == << dt.year, dt.month, dt.day >>

\* dt + timedelta(days=k)
AddDays(dt, k) == FromOrdinal(ToOrdinal(dt) + k)

\* a <= b on datetimes: year, then month, then day.
DatetimeLeq(a, b) ==
    \/ a.year < b.year
    \/ a.year = b.year /\ a.month < b.month
    \/ a.year = b.year /\ a.month = b.month /\ a.day <= b.day

\* get_yesterday: the UTC date one day before now.
get_yesterday(now) == strftime(AddDays(strptime(now), -1))

\* ---------------------------------------------------------- parse_date_range

RECURSIVE RangeLoop(_, _, _)
\* The while loop of parse_date_range: `while current <= end`.
RangeLoop(current, end, acc) ==
    IF DatetimeLeq(current, end)
    THEN RangeLoop(AddDays(current, 1), end, Append(acc, strftime(current)))
    ELSE acc

RECURSIVE RangeLoopExclusive(_, _, _)
\* The loop with `current < end`: the end date is left out.
RangeLoopExclusive(current, end, acc) ==
    IF DatetimeLeq(current, end) /\ current # end
    THEN RangeLoopExclusive(AddDays(current, 1), end, Append(acc, strftime(current)))
    ELSE acc

parse_date_range_exclusive(start_date, end_date) ==
    LET start == strptime(start_date)
    IN  IF end_date # NoDate
        THEN RangeLoopExclusive(start, strptime(end_date), << >>)
        ELSE << strftime(start) >>

parse_date_range(start_date, end_date) ==
    LET start == strptime(start_date)
    IN  IF end_date # NoDate
        THEN RangeLoop(start, strptime(end_date), << >>)
        ELSE << strftime(start) >>

\* ------------------------------------------------------ transform_activity_data

\* item.get(key, default)
Get(item, key, default) == IF key \in DOMAIN item THEN item[key] ELSE default

\* The keys read with item[...]: a record without one of them raises KeyError.
RequiredKeys == { "usage", "requests", "prompt_tokens", "completion_tokens", "provider_name" }

WellFormed(item) == RequiredKeys \subseteq DOMAIN item

RECURSIVE SumFieldSkippingFirst(_, _, _)
\* A sum that starts at the second record.
SumFieldSkippingFirst(data, key, default) ==
    IF Len(data) <= 1 THEN 0
    ELSE Get(data[Len(data)], key, default)
         + SumFieldSkippingFirst(SubSeq(data, 1, Len(data) - 1), key, default)

RECURSIVE SumField(_, _, _)
\* sum(item[key] for item in raw_data), item.get(key, default) for an optional key.
SumField(data, key, default) ==
    IF data = << >> THEN 0
    ELSE SumField(SubSeq(data, 1, Len(data) - 1), key, default)
         + Get(data[Len(data)], key, default)

\* The per-record dictionary built in the for loop.
ModelOf(item) ==
    [ name              |-> Get(item, "model_permaslug", Get(item, "model", "")),
      cost              |-> item["usage"],
      requests          |-> item["requests"],
      prompt_tokens     |-> item["prompt_tokens"],
      completion_tokens |-> item["completion_tokens"],
      reasoning_tokens  |-> Get(item, "reasoning_tokens", 0),
      byok_usage        |-> Get(item, "byok_usage_inference", 0),
      provider          |-> item["provider_name"] ]

Reverse(s) == [ i \in 1..Len(s) |-> s[Len(s) + 1 - i] ]

\* x placed after every element whose cost is not larger: ascending, stable.
InsertByCost(sorted, x) ==
    LET k == Cardinality({ i \in 1..Len(sorted) : sorted[i].cost <= x.cost })
    IN  SubSeq(sorted, 1, k) \o << x >> \o SubSeq(sorted, k + 1, Len(sorted))

RECURSIVE StableSortAsc(_)
StableSortAsc(s) ==
    IF s = << >> THEN << >>
    ELSE InsertByCost(StableSortAsc(SubSeq(s, 1, Len(s) - 1)), s[Len(s)])

\* An ascending sort turned round: equal costs come out in reverse input order.
SortByCostDescReversing(models) == Reverse(StableSortAsc(models))

\* models.sort(key=lambda x: x["cost"], reverse=True): list.sort reverses the
\* list, sorts it stably in ascending key order and reverses the result.
SortByCostDesc(models) == Reverse(StableSortAsc(Reverse(models)))

\* What transform_activity_data gives when a required key is missing.
KeyError == [ raised |-> "KeyError" ]

transform_activity_data(data, date) ==
    IF data = << >>
    THEN [ date |-> date, total_cost |-> 0, total_requests |-> 0,
           total_prompt_tokens |-> 0, total_completion_tokens |-> 0,
           total_reasoning_tokens |-> 0, model_count |-> 0, models |-> << >> ]
    ELSE IF \E i \in 1..Len(data) : ~WellFormed(data[i])
    THEN KeyError
    ELSE LET models == SortByCostDesc([ i \in 1..Len(data) |-> ModelOf(data[i]) ])
         IN  [ date                    |-> date,
               total_cost              |-> SumField(data, "usage", 0),
               total_requests          |-> SumField(data, "requests", 0),
               total_prompt_tokens     |-> SumField(data, "prompt_tokens", 0),
               total_completion_tokens |-> SumField(data, "completion_tokens", 0),
               total_reasoning_tokens  |-> SumField(data, "reasoning_tokens", 0),
               model_count             |-> Len(models),
               models                  |-> models ]

\* ---------------------------------------------------------- send_to_posthog

\* f"{date}T23:30:00Z"
Timestamp(date) == << date, "T23:30:00Z" >>

\* The JSON body of the POST to <host>/i/v0/e/.
Payload(api_key, data, date) ==
    [ api_key     |-> api_key,
      event       |-> "openrouter_daily_activity",
      distinct_id |-> "enchanted_github_actions",
      properties  |-> data,
      timestamp   |-> Timestamp(date) ]

\* ------------------------------------------------------------------- inputs

\* The day after s on the calendar, by the lengths of the months.
NextCalendarDay(s) ==
    IF s[3] < DaysInMonth(s[1], s[2]) THEN << s[1], s[2], s[3] + 1 >>
    ELSE IF s[2] < 12 THEN << s[1], s[2] + 1, 1 >>
    ELSE << s[1] + 1, 1, 1 >>

\* The day before s on the calendar.
PrevCalendarDay(s) ==
    IF s[3] > 1 THEN << s[1], s[2], s[3] - 1 >>
    ELSE IF s[2] > 1 THEN << s[1], s[2] - 1, DaysInMonth(s[1], s[2] - 1) >>
    ELSE << s[1] - 1, 12, 31 >>

RECURSIVE DaysFrom(_, _)
\* The k consecutive dates that start with s.
DaysFrom(s, k) == IF k = 0 THEN { } ELSE { s } \cup DaysFrom(NextCalendarDay(s), k - 1)

RECURSIVE DaysUpTo(_, _)
\* The k consecutive dates that end with s.
DaysUpTo(s, k) == IF k = 0 THEN { } ELSE { s } \cup DaysUpTo(PrevCalendarDay(s), k - 1)

\* Years whose dates are given to parse_date_range: a leap year, the years
\* round it, a leap century and a century that is no leap year.
RangeYears == { 1999, 2000, 2023, 2024, 2025, 2100 }

RangeStartDates ==
    { s \in RangeYears \X (1..12) \X (1..31) : s[3] <= DaysInMonth(s[1], s[2]) }

\* End dates at most MaxSpan days from the start date, before or after it.
RangeEndDates(s) == DaysFrom(s, MaxSpan + 1) \cup DaysUpTo(s, MaxSpan + 1)

\* The dates a whole run is given: NumDays days from 2025-08-30 on.
RunDates == DaysFrom(<< 2025, 8, 30 >>, NumDays)

EnvValues == { Unset, "", "key" }

\* An activity record as the activity endpoint returns it; the three kinds
\* differ in the optional fields they carry.
ActivityRecord(kind, cost) ==
    CASE kind = 1 ->
           [ model_permaslug |-> "vendor/model-a-2025", model |-> "vendor/model-a",
             usage |-> cost, requests |-> 1, prompt_tokens |-> 10,
             completion_tokens |-> 5, reasoning_tokens |-> 2,
             byok_usage_inference |-> 1, provider_name |-> "p1" ]
      [] kind = 2 ->
           [ model |-> "vendor/model-b", usage |-> cost, requests |-> 2,
             prompt_tokens |-> 20, completion_tokens |-> 7, provider_name |-> "p2" ]
      [] OTHER ->
           [ usage |-> cost, requests |-> 3, prompt_tokens |-> 30,
             completion_tokens |-> 9, reasoning_tokens |-> 4, provider_name |-> "p3" ]

\* A record without the required "usage" key.
MalformedRecord ==
    [ model |-> "vendor/model-c", requests |-> 1, prompt_tokens |-> 1,
      completion_tokens |-> 1, provider_name |-> "p1" ]

ActivityRecords ==
    { ActivityRecord(k, c) : k \in 1..3, c \in 0..MaxCost } \cup { MalformedRecord }

RecordLists == UNION { [ 1..n -> ActivityRecords ] : n \in 0..MaxRecords }

\* What the activity GET can come back with in a whole run: a transport
\* failure, a body with an "error" field, or a body with a "data" list.
FetchResponses ==
    { [ kind |-> "network", data |-> << >> ],
      [ kind |-> "error_body", data |-> << >> ],
      [ kind |-> "data", data |-> << >> ],
      [ kind |-> "data", data |-> << ActivityRecord(2, 1), ActivityRecord(1, 2) >> ],
      [ kind |-> "data", data |-> << MalformedRecord >> ] }

\* What the POST can come back with: a transport failure, a status other
\* than "Ok", or "Ok".
SendResponses == { "network", "not_ok", "Ok" }

\* -------------------------------------------------------------------- main

Init ==
    /\ env \in [ OPENROUTER_API_KEY : EnvValues, POSTHOG_API_KEY : EnvValues,
                 POSTHOG_HOST : EnvValues ]
    /\ args \in [ date : { NoDate } \cup RunDates, start_date : { NoDate } \cup RunDates,
                  end_date : { NoDate } \cup RunDates ]
    /\ today \in RunDates
    /\ pc = "check_env"
    /\ dates = << >>
    /\ idx = 0
    /\ success_count = 0
    /\ raw_data = << >>
    /\ event_data = << >>
    /\ exit_code = 0
    /\ error = "none"
    /\ summary = << >>
    /\ fetched = << >>
    /\ posted = << >>
    /\ outcomes = << >>

\* any([...]) in place of all([...]).
EnvCompleteAny(e) ==
    Truthy(e.OPENROUTER_API_KEY) \/ Truthy(e.POSTHOG_API_KEY) \/ Truthy(e.POSTHOG_HOST)

\* all([openrouter_key, posthog_key, posthog_host])
EnvComplete(e) ==
    Truthy(e.OPENROUTER_API_KEY) /\ Truthy(e.POSTHOG_API_KEY) /\ Truthy(e.POSTHOG_HOST)

\* The check of the environment; sys.exit(1) when a variable is missing.
CheckEnv ==
    /\ pc = "check_env"
    /\ IF EnvComplete(env)
       THEN /\ pc' = "plan"
            /\ UNCHANGED << exit_code, error >>
       ELSE /\ pc' = "exited"
            /\ exit_code' = 1
            /\ error' = "MissingEnv"
    /\ UNCHANGED << env, args, today, dates, idx, success_count, raw_data, event_data,
                    summary, fetched, posted, outcomes >>

\* The choice of the dates to sync, and success_count = 0.  With --start-date
\* the list comes from parse_date_range and dates[0] is printed: on an empty
\* list that raises IndexError, which nothing catches.
PlanDates ==
    /\ pc = "plan"
    /\ LET planned == IF args.start_date # NoDate
                      THEN parse_date_range(args.start_date, args.end_date)
                      ELSE IF args.date # NoDate
                      THEN << args.date >>
                      ELSE << get_yesterday(today) >>
       IN  /\ dates' = planned
           /\ IF planned = << >>
              THEN /\ pc' = "exited"
                   /\ exit_code' = 1
                   /\ error' = "IndexError"
              ELSE /\ pc' = "loop"
                   /\ UNCHANGED << exit_code, error >>
    /\ success_count' = 0
    /\ idx' = 0
    /\ UNCHANGED << env, args, today, raw_data, event_data, summary, fetched, posted,
                    outcomes >>

\* `for date in dates`: the next date, or the end of the loop.
LoopNext ==
    /\ pc = "loop"
    /\ IF idx < Len(dates)
       THEN /\ idx' = idx + 1
            /\ pc' = "fetch"
       ELSE /\ pc' = "summary"
            /\ UNCHANGED idx
    /\ UNCHANGED << env, args, today, dates, success_count, raw_data, event_data,
                    exit_code, error, summary, fetched, posted, outcomes >>

\* A handler that leaves the loop at the first failure.
SyncFailedAborts(kind) ==
    /\ outcomes' = Append(outcomes, kind)
    /\ pc' = "summary"
    /\ UNCHANGED success_count

\* A handler that counts the failed date as synced.
SyncFailedCounted(kind) ==
    /\ outcomes' = Append(outcomes, kind)
    /\ pc' = "loop"
    /\ success_count' = success_count + 1

\* sync_date raised: its except clauses print and re-raise, main's except
\* prints "Skipping" and continues with the next date.
SyncFailed(kind) ==
    /\ outcomes' = Append(outcomes, kind)
    /\ pc' = "loop"
    /\ UNCHANGED success_count

\* sync_date returned: success_count += 1.
SyncSucceeded ==
    /\ outcomes' = Append(outcomes, "ok")
    /\ pc' = "loop"
    /\ success_count' = success_count + 1

\* A fetch that does not look for the "error" field: data.get("data", []).
FetchIgnoringErrorBody ==
    /\ pc = "fetch"
    /\ \E resp \in FetchResponses :
         /\ fetched' = Append(fetched, [ date |-> dates[idx], response |-> resp ])
         /\ IF resp.kind = "network"
            THEN /\ SyncFailed("fetch_network")
                 /\ UNCHANGED raw_data
            ELSE /\ raw_data' = resp.data
                 /\ pc' = "transform"
                 /\ UNCHANGED << outcomes, success_count >>
    /\ UNCHANGED << env, args, today, dates, idx, event_data, exit_code, error, summary,
                    posted >>

\* fetch_openrouter_activity for the current date: raise_for_status or the
\* transport raises, the body holds "error", or the "data" list is returned.
Fetch ==
    /\ pc = "fetch"
    /\ \E resp \in FetchResponses :
         /\ fetched' = Append(fetched, [ date |-> dates[idx], response |-> resp ])
         /\ IF resp.kind = "network"
            THEN /\ SyncFailed("fetch_network")
                 /\ UNCHANGED raw_data
            ELSE IF resp.kind = "error_body"
            THEN /\ SyncFailed("fetch_remote")
                 /\ UNCHANGED raw_data
            ELSE /\ raw_data' = resp.data
                 /\ pc' = "transform"
                 /\ UNCHANGED << outcomes, success_count >>
    /\ UNCHANGED << env, args, today, dates, idx, event_data, exit_code, error, summary,
                    posted >>

\* transform_activity_data on what was fetched; a KeyError ends the date.
Transform ==
    /\ pc = "transform"
    /\ LET built == transform_activity_data(raw_data, dates[idx])
       IN  IF built = KeyError
           THEN /\ SyncFailed("aggregate")
                /\ UNCHANGED event_data
           ELSE /\ event_data' = built
                /\ pc' = "send"
                /\ UNCHANGED << outcomes, success_count >>
    /\ UNCHANGED << env, args, today, dates, idx, raw_data, exit_code, error, summary,
                    fetched, posted >>

\* send_to_posthog: the POST, then raise_for_status and the "status" check.
Send ==
    /\ pc = "send"
    /\ posted' = Append(posted, Payload(env.POSTHOG_API_KEY, event_data, dates[idx]))
    /\ \E resp \in SendResponses :
         IF resp = "network" THEN SyncFailed("send_network")
         ELSE IF resp = "not_ok" THEN SyncFailed("send_remote")
         ELSE SyncSucceeded
    /\ UNCHANGED << env, args, today, dates, idx, raw_data, event_data, exit_code, error,
                    summary, fetched >>

\* The summary line, after which the process ends with status 0.
Summary ==
    /\ pc = "summary"
    /\ summary' = << success_count, Len(dates) >>
    /\ pc' = "exited"
    /\ exit_code' = 0
    /\ UNCHANGED << env, args, today, dates, idx, success_count, raw_data, event_data,
                    error, fetched, posted, outcomes >>

Next == CheckEnv \/ PlanDates \/ LoopNext \/ Fetch \/ Transform \/ Send \/ Summary

Spec == Init /\ [][Next]_vars

\* ------------------------------------------- parse_date_range on its own

InitRange ==
    /\ \E s \in RangeStartDates :
         args \in [ date : { NoDate }, start_date : { s },
                    end_date : { NoDate } \cup RangeEndDates(s) ]
    /\ pc = "range_call"
    /\ env = [ OPENROUTER_API_KEY |-> Unset, POSTHOG_API_KEY |-> Unset,
               POSTHOG_HOST |-> Unset ]
    /\ today = << 2025, 8, 30 >>
    /\ dates = << >>
    /\ idx = 0
    /\ success_count = 0
    /\ raw_data = << >>
    /\ event_data = << >>
    /\ exit_code = 0
    /\ error = "none"
    /\ summary = << >>
    /\ fetched = << >>
    /\ posted = << >>
    /\ outcomes = << >>

\* A call of parse_date_range(start_date, end_date).
CallParseDateRange ==
    /\ pc = "range_call"
    /\ dates' = parse_date_range(args.start_date, args.end_date)
    /\ pc' = "range_returned"
    /\ UNCHANGED << env, args, today, idx, success_count, raw_data, event_data,
                    exit_code, error, summary, fetched, posted, outcomes >>

NextRange == CallParseDateRange

SpecRange == InitRange /\ [][NextRange]_vars

\* ------------------------------------ transform_activity_data on its own

InitTransform ==
    /\ raw_data \in RecordLists
    /\ pc = "transform_call"
    /\ env = [ OPENROUTER_API_KEY |-> Unset, POSTHOG_API_KEY |-> Unset,
               POSTHOG_HOST |-> Unset ]
    /\ args = [ date |-> << 2025, 8, 25 >>, start_date |-> NoDate, end_date |-> NoDate ]
    /\ today = << 2025, 8, 30 >>
    /\ dates = << >>
    /\ idx = 0
    /\ success_count = 0
    /\ event_data = << >>
    /\ exit_code = 0
    /\ error = "none"
    /\ summary = << >>
    /\ fetched = << >>
    /\ posted = << >>
    /\ outcomes = << >>

\* A call of transform_activity_data(raw_data, date).
CallTransform ==
    /\ pc = "transform_call"
    /\ event_data' = transform_activity_data(raw_data, args.date)
    /\ pc' = "transform_returned"
    /\ UNCHANGED << env, args, today, dates, idx, success_count, raw_data, exit_code,
                    error, summary, fetched, posted, outcomes >>

NextTransform == CallTransform

SpecTransform == InitTransform /\ [][NextTransform]_vars

\* ------------------------------------------------------------------ claims

\* Outcomes of a date whose fetch, aggregation and send all succeeded.
RECURSIVE CountOk(_)
CountOk(os) ==
    IF os = << >> THEN 0
    ELSE CountOk(SubSeq(os, 1, Len(os) - 1)) + (IF os[Len(os)] = "ok" THEN 1 ELSE 0)

\* The number of dates whose sync_date has been entered.
Attempted == IF pc = "fetch" THEN idx - 1 ELSE idx

\* The number of dates whose sync_date has returned or raised.
Processed == IF pc \in { "fetch", "transform", "send" } THEN idx - 1 ELSE idx

\* Every required variable is set and not empty.
ConfigPresent ==
    \A k \in { "OPENROUTER_API_KEY", "POSTHOG_API_KEY", "POSTHOG_HOST" } :
        env[k] # Unset /\ env[k] # ""

\* C1: in the driver loop every planned date is attempted exactly once and in
\* list order, whatever happened to the dates before it: the dates fetched so
\* far are the first dates of the plan, and when the run has ended they are
\* the whole plan.
C1_EveryDateAttemptedOnce ==
    /\ [ j \in 1..Len(fetched) |-> fetched[j].date ] = SubSeq(dates, 1, Attempted)
    /\ pc \in { "summary", "exited" } => Len(fetched) = Len(dates)

\* C1 witness: a run of three dates has ended in which the first date's send,
\* the second date's fetch and the third date's aggregation failed.
C1_Witness ==
    /\ pc = "exited"
    /\ Len(dates) = 3
    /\ outcomes = << "send_remote", "fetch_network", "aggregate" >>
    /\ Len(fetched) = 3

\* C2: success_count is the number of processed dates whose three steps all
\* succeeded, between 0 and the number of dates processed, and the summary
\* printed at the end is that number over the number of planned dates.
C2_SuccessCountIsOkCount ==
    /\ Len(outcomes) = Processed
    /\ success_count = CountOk(outcomes)
    /\ 0 <= success_count /\ success_count <= Processed
    /\ summary # << >> =>
         /\ Len(outcomes) = Len(dates)
         /\ summary = << CountOk(outcomes), Len(dates) >>

\* C2 witness: the summary 2/3 after a send failure on the second of three dates.
C2_Witness ==
    /\ pc = "exited"
    /\ outcomes = << "ok", "send_remote", "ok" >>
    /\ summary = << 2, 3 >>

\* C3: with a required variable unset or empty the run ends with exit code 1
\* before a date is planned or processed: no fetch and no send is ever made.
C3_MissingConfigExitsBeforeWork ==
    ~ConfigPresent =>
        /\ pc \in { "check_env", "exited" }
        /\ pc = "exited" => exit_code = 1
        /\ dates = << >> /\ idx = 0
        /\ fetched = << >> /\ posted = << >> /\ outcomes = << >>

\* C3 witness: a run with only the PostHog host empty has exited with 1,
\* although a date range was asked for.
C3_Witness ==
    /\ pc = "exited" /\ exit_code = 1
    /\ env.OPENROUTER_API_KEY = "key" /\ env.POSTHOG_API_KEY = "key"
    /\ env.POSTHOG_HOST = ""
    /\ args.start_date # NoDate /\ args.end_date # NoDate

\* C4, as claimed: with the three variables present the run ends with status
\* 0 whatever the date arguments and the per-date outcomes, and status 1 is
\* seen only when a variable is missing.
C4_ExitZeroWheneverConfigured ==
    pc = "exited" => (exit_code = 0 <=> ConfigPresent)

\* ------------------------------------------------ claims on the date range

\* a is a calendar date before b.
DateBefore(a, b) ==
    \/ a[1] < b[1]
    \/ a[1] = b[1] /\ a[2] < b[2]
    \/ a[1] = b[1] /\ a[2] = b[2] /\ a[3] < b[3]

RECURSIVE DaysBetween(_, _)
\* The number of days from a to a later date b, counted on the calendar.
DaysBetween(a, b) == IF a = b THEN 0 ELSE 1 + DaysBetween(NextCalendarDay(a), b)

\* The calendar dates from a to b, both included (none when b is before a).
RECURSIVE CalendarRange(_, _)
CalendarRange(a, b) ==
    IF DateBefore(b, a) THEN << >>
    ELSE IF a = b THEN << a >>
    ELSE << a >> \o CalendarRange(NextCalendarDay(a), b)

\* C5: for start <= end parse_date_range returns the consecutive calendar
\* dates from start to end, both included, in ascending order and with none
\* left out or repeated: its length is the days between the two plus one.
C5_RangeIsConsecutiveInclusive ==
    ( /\ pc = "range_returned"
      /\ args.end_date # NoDate
      /\ ~DateBefore(args.end_date, args.start_date) ) =>
        /\ Len(dates) = DaysBetween(args.start_date, args.end_date) + 1
        /\ dates[1] = args.start_date
        /\ dates[Len(dates)] = args.end_date
        /\ \A i \in 1..(Len(dates) - 1) :
              /\ dates[i + 1] = NextCalendarDay(dates[i])
              /\ DateBefore(dates[i], dates[i + 1])

\* C5 witness: 2025-08-20 to 2025-08-22 gave exactly those three dates.
C5_Witness ==
    /\ pc = "range_returned"
    /\ args.start_date = << 2025, 8, 20 >> /\ args.end_date = << 2025, 8, 22 >>
    /\ dates = << << 2025, 8, 20 >>, << 2025, 8, 21 >>, << 2025, 8, 22 >> >>

\* C6, as claimed: an end date before the start date makes the planner fail
\* with a configuration error before any date is processed; the reversed
\* range is not accepted as an empty list.
C6_ReversedRangeIsConfigError ==
    ( /\ pc \notin { "check_env", "plan" }
      /\ ConfigPresent
      /\ args.start_date # NoDate /\ args.end_date # NoDate
      /\ DateBefore(args.end_date, args.start_date) ) =>
        /\ error = "ConfigError"
        /\ fetched = << >>

\* C7, as claimed: with a start date not after today and no end date the run
\* syncs every calendar date from the start date to today, both included.
C7_StartOnlyRunsThroughToday ==
    ( /\ pc \notin { "check_env", "plan" }
      /\ ConfigPresent
      /\ args.start_date # NoDate /\ args.end_date = NoDate
      /\ ~DateBefore(today, args.start_date) ) =>
        dates = CalendarRange(args.start_date, today)

\* ------------------------------------------- claims on the daily summary

RECURSIVE SumOver(_, _)
\* The sum of field f over a list of per-model entries.
SumOver(ms, f) == IF ms = << >> THEN 0 ELSE ms[1][f] + SumOver(Tail(ms), f)

\* The records of a list are all well formed.
AllWellFormed(data) == \A i \in 1..Len(data) : WellFormed(data[i])

\* The entries of ms whose cost is c, in their order in ms.
WithCost(ms, c) == SelectSeq(ms, LAMBDA m : m.cost = c)

\* What one record becomes in the summary: optional fields default to 0, the
\* name is the permanent slug, else the model field, else empty.
Projection(item) ==
    [ name              |-> IF "model_permaslug" \in DOMAIN item THEN item.model_permaslug
                            ELSE IF "model" \in DOMAIN item THEN item.model ELSE "",
      cost              |-> item.usage,
      requests          |-> item.requests,
      prompt_tokens     |-> item.prompt_tokens,
      completion_tokens |-> item.completion_tokens,
      reasoning_tokens  |-> IF "reasoning_tokens" \in DOMAIN item
                            THEN item.reasoning_tokens ELSE 0,
      byok_usage        |-> IF "byok_usage_inference" \in DOMAIN item
                            THEN item.byok_usage_inference ELSE 0,
      provider          |-> item.provider_name ]

\* C8: for well-formed records the summary has model_count = length of models
\* = number of records, and each total is the sum of the per-model field over
\* models (a record without reasoning_tokens counts 0); for no records all
\* totals are 0 and models is empty.
C8_TotalsAreSumsOverModels ==
    ( pc = "transform_returned" /\ AllWellFormed(raw_data) ) =>
        /\ event_data # KeyError
        /\ event_data.date = args.date
        /\ event_data.model_count = Len(event_data.models)
        /\ event_data.model_count = Len(raw_data)
        /\ event_data.total_cost = SumOver(event_data.models, "cost")
        /\ event_data.total_requests = SumOver(event_data.models, "requests")
        /\ event_data.total_prompt_tokens = SumOver(event_data.models, "prompt_tokens")
        /\ event_data.total_completion_tokens
             = SumOver(event_data.models, "completion_tokens")
        /\ event_data.total_reasoning_tokens
             = SumOver(event_data.models, "reasoning_tokens")
        /\ \A i \in 1..Len(event_data.models) :
              \E j \in 1..Len(raw_data) : event_data.models[i] = Projection(raw_data[j])
        /\ raw_data = << >> =>
              /\ event_data.models = << >>
              /\ event_data.model_count = 0
              /\ event_data.total_cost = 0 /\ event_data.total_requests = 0
              /\ event_data.total_prompt_tokens = 0
              /\ event_data.total_completion_tokens = 0
              /\ event_data.total_reasoning_tokens = 0

\* C8 witness: three records, one of them without reasoning_tokens, summed
\* to a cost of 3 and 6 reasoning tokens.
C8_Witness ==
    /\ pc = "transform_returned"
    /\ raw_data = << ActivityRecord(1, 1), ActivityRecord(2, 2), ActivityRecord(3, 0) >>
    /\ event_data.model_count = 3
    /\ event_data.total_cost = 3
    /\ event_data.total_requests = 6
    /\ event_data.total_reasoning_tokens = 6

\* C9: models is a permutation of the projections of the records, in order of
\* cost from largest to smallest, and entries of equal cost keep the order
\* their records had in the input.
C9_ModelsSortedByCostStable ==
    ( pc = "transform_returned" /\ AllWellFormed(raw_data) ) =>
        LET ms   == event_data.models
            proj == [ i \in 1..Len(raw_data) |-> Projection(raw_data[i]) ]
        IN  /\ Len(ms) = Len(proj)
            /\ \A i \in 1..(Len(ms) - 1) : ms[i].cost >= ms[i + 1].cost
            /\ \A c \in 0..(MaxCost + 1) : WithCost(ms, c) = WithCost(proj, c)

\* C9 witness: of three records the two of cost 1 came out after the one of
\* cost 2 and in their input order.
C9_Witness ==
    /\ pc = "transform_returned"
    /\ raw_data = << ActivityRecord(1, 1), ActivityRecord(2, 2), ActivityRecord(3, 1) >>
    /\ event_data.models = << Projection(ActivityRecord(2, 2)),
                              Projection(ActivityRecord(1, 1)),
                              Projection(ActivityRecord(3, 1)) >>

\* ---------------------------------------------- claim on the order of steps

\* C10: for each planned date at most one event is posted, and only after the
\* fetch for that date returned a data list without error; the event carries
\* the summary built from that data, with timestamp <date>T23:30:00Z; and the
\* fetch for a date starts only when every earlier date has completed or
\* failed.
C10_OneEventPerFetchedDate ==
    /\ \A k \in 1..Len(posted) :
          \E j \in 1..Len(fetched) :
              /\ fetched[j].response.kind = "data"
              /\ posted[k].timestamp = << fetched[j].date, "T23:30:00Z" >>
              /\ posted[k].properties.date = fetched[j].date
              /\ posted[k].properties
                   = transform_activity_data(fetched[j].response.data, fetched[j].date)
              /\ posted[k].event = "openrouter_daily_activity"
    /\ \A k1, k2 \in 1..Len(posted) :
          posted[k1].timestamp = posted[k2].timestamp => k1 = k2
    /\ \A j1, j2 \in 1..Len(fetched) : fetched[j1].date = fetched[j2].date => j1 = j2
    /\ Len(fetched) <= Len(outcomes) + 1
    /\ Len(posted) <= Len(fetched)
    /\ \A j \in 1..Len(outcomes) :
          outcomes[j] \in { "fetch_network", "fetch_remote" }
              => \A k \in 1..Len(posted) : posted[k].timestamp[1] # fetched[j].date

\* C10 witness: in a run of three dates the first fetch returned an error
\* body and the last a transport error, and the only event posted is the one
\* for the second date.
C10_Witness ==
    /\ pc = "exited"
    /\ Len(dates) = 3
    /\ outcomes = << "fetch_remote", "ok", "fetch_network" >>
    /\ Len(posted) = 1
    /\ posted[1].timestamp = << dates[2], "T23:30:00Z" >>
    /\ posted[1].properties.model_count = 2

====
